---- MODULE Spec2Model ----
(***************************************************************************)
(* Model of stars_creator.py: the fixed-width line parser (LineParser),    *)
(* the transcode loop (StarsFileCreator.create_stars) and the validation   *)
(* workflow (Validator.val_parameters inside run_stars_creator).           *)
(*                                                                         *)
(* A Python str is a sequence of one-character strings, so that slicing,   *)
(* strip, isdigit, int() and zfill are computed as Python computes them.   *)
(***************************************************************************)
EXTENDS Integers, Sequences, FiniteSets, TLC

VARIABLES
    pc,              \* position of the running function
    p_line,          \* parse_line: argument line
    p_key,           \* parse_line: argument format_key
    p_result,        \* parse_line: what the call returned or raised
    pid,             \* create_stars: argument pid (last 3 characters of the batch number)
    original_lines,  \* create_stars: the lines read from infile
    idx,             \* create_stars: 1-based position of the for loop in original_lines
    output_lines,    \* create_stars: the frame being built
    total,           \* create_stars: running total for the trailer
    outfile,         \* the output destination: [exists, lines]
    exc,             \* the exception that ended the run, "none" while there is none
    validate,        \* run_stars_creator: self.validate
    is_monthly,      \* Validator.is_monthly ("" stands for None: both are falsy)
    today,           \* date.today()
    valfile,         \* the lines of VALFILE, written by the query interpreter
    facts,           \* val_parameters: the ten values parse_valfile returned
    console,         \* what has been printed and prompted, in order
    gate_answer,     \* val_parameters: val_confirmation before line 317
    val_confirmation,\* run_stars_creator: what val_parameters returned
    create_called    \* run_stars_creator: create_stars has been called

parse_vars == <<p_line, p_key, p_result>>

cs_vars == <<pid, original_lines, idx, output_lines, total, outfile>>

val_vars == <<validate, is_monthly, today, valfile, facts, console,
              gate_answer, val_confirmation, create_called>>

vars == <<pc, p_line, p_key, p_result, pid, original_lines, idx, output_lines,
          total, outfile, exc, validate, is_monthly, today, valfile, facts,
          console, gate_answer, val_confirmation, create_called>>

-----------------------------------------------------------------------------
(* Python str operations *)

Digits == {"0", "1", "2", "3", "4", "5", "6", "7", "8", "9"}

Whitespace == {" ", "\n", "\t", "\r"}

DigitVal(c) ==
    CASE c = "0" -> 0 [] c = "1" -> 1 [] c = "2" -> 2 [] c = "3" -> 3
      [] c = "4" -> 4 [] c = "5" -> 5 [] c = "6" -> 6 [] c = "7" -> 7
      [] c = "8" -> 8 [] c = "9" -> 9

DigitChar(d) ==
    CASE d = 0 -> "0" [] d = 1 -> "1" [] d = 2 -> "2" [] d = 3 -> "3"
      [] d = 4 -> "4" [] d = 5 -> "5" [] d = 6 -> "6" [] d = 7 -> "7"
      [] d = 8 -> "8" [] d = 9 -> "9"

Min(a, b) == IF a <= b THEN a ELSE b

\* s[start:end] for 0 <= start: a short string gives a short or empty slice
Slice(s, start, end) == SubSeq(s, start + 1, Min(end, Len(s)))

\* sub in s
Contains(sub, s) ==
    \E k \in 0..(Len(s) - Len(sub)) : SubSeq(s, k + 1, k + Len(sub)) = sub

RECURSIVE LStrip(_, _)
\* s.lstrip(chars)
LStrip(s, chars) ==
    IF s # <<>> /\ Head(s) \in chars THEN LStrip(Tail(s), chars) ELSE s

RECURSIVE RStrip(_, _)
\* s.rstrip(chars)
RStrip(s, chars) ==
    IF s # <<>> /\ s[Len(s)] \in chars
    THEN RStrip(SubSeq(s, 1, Len(s) - 1), chars)
    ELSE s

\* s.strip(chars); s.strip() is StripChars(s, Whitespace)
StripChars(s, chars) == RStrip(LStrip(s, chars), chars)

\* s.isdigit()
IsDigit(s) == s # <<>> /\ \A k \in 1..Len(s) : s[k] \in Digits

RECURSIVE DigitsValue(_)
DigitsValue(s) ==
    IF s = <<>> THEN 0
    ELSE 10 * DigitsValue(SubSeq(s, 1, Len(s) - 1)) + DigitVal(s[Len(s)])

\* int(s): surrounding whitespace, one optional sign, then digits; anything
\* else is a ValueError (ok = FALSE)
SignedInt(sign, body) ==
    IF IsDigit(body)
    THEN [ok |-> TRUE,
          val |-> IF sign = "-" THEN 0 - DigitsValue(body) ELSE DigitsValue(body)]
    ELSE [ok |-> FALSE, val |-> 0]

IntOfStripped(t) ==
    IF t # <<>> /\ Head(t) \in {"-", "+"} THEN SignedInt(Head(t), Tail(t))
    ELSE SignedInt("+", t)

PyInt(s) == IntOfStripped(StripChars(s, Whitespace))

Abs(n) == IF n < 0 THEN 0 - n ELSE n

RECURSIVE NatStr(_)
NatStr(n) ==
    IF n < 10 THEN <<DigitChar(n)>>
    ELSE Append(NatStr(n \div 10), DigitChar(n % 10))

\* str(n)
PyStr(n) == IF n < 0 THEN <<"-">> \o NatStr(0 - n) ELSE NatStr(n)

Repeat(c, n) == [k \in 1..n |-> c]

\* s.zfill(width): zeros go after a leading sign
Zfill(s, width) ==
    IF Len(s) >= width THEN s
    ELSE IF s # <<>> /\ Head(s) \in {"-", "+"}
         THEN <<Head(s)>> \o Repeat("0", width - Len(s)) \o Tail(s)
         ELSE Repeat("0", width - Len(s)) \o s

\* what a call gives back: a value, or the exception it raised
Return(v) == [exc |-> "none", msg |-> "", value |-> v]

Raise(e, m) == [exc |-> e, msg |-> m, value |-> <<>>]

-----------------------------------------------------------------------------
(* LineParser *)

\* every field is a sequence of half-open column ranges; a single range is
\* a sequence of one
LINE_FORMATS ==
    [X0A |->
        [di |-> <<<<6, 9>>>>, ri |-> <<<<12, 15>>>>, ms |-> <<<<18, 19>>>>,
         fsc |-> <<<<24, 28>>>>,
         niin |-> <<<<30, 32>>, <<33, 36>>, <<37, 41>>>>,
         ui |-> <<<<44, 46>>>>, qty |-> <<<<50, 55>>>>,
         doc_no |-> <<<<57, 71>>>>, tec |-> <<<<73, 77>>>>,
         dmd |-> <<<<80, 81>>>>, sig |-> <<<<86, 87>>>>,
         fc |-> <<<<91, 93>>>>, cog |-> <<<<96, 98>>>>,
         prj |-> <<<<101, 104>>>>, pri |-> <<<<107, 109>>>>,
         adv |-> <<<<113, 115>>>>, tn |-> <<<<118, 121>>>>,
         fy |-> <<<<127, 128>>>>,
         mv |-> <<<<134, 142>>, <<143, 145>>>>,
         rmks |-> <<<<148, 163>>>>],
     B1N |->
        [di |-> <<<<6, 9>>>>, doc_no |-> <<<<12, 26>>>>,
         acrn |-> <<<<32, 34>>>>, jon |-> <<<<38, 49>>>>,
         exp |-> <<<<54, 55>>>>, occ |-> <<<<62, 65>>>>,
         mv |-> <<<<72, 83>>>>, gl |-> <<<<89, 92>>>>,
         cr_db |-> <<<<98, 99>>>>, fy |-> <<<<103, 104>>>>,
         qty |-> <<<<110, 115>>>>, ui |-> <<<<117, 119>>>>,
         tn |-> <<<<121, 124>>>>, cog |-> <<<<126, 128>>>>,
         fsc |-> <<<<130, 134>>>>, niin |-> <<<<135, 144>>>>]]

RECURSIVE JoinSlices(_, _)
\* "".join(line[start:end] for start, end in v)
JoinSlices(line, v) ==
    IF v = <<>> THEN <<>>
    ELSE Slice(line, Head(v)[1], Head(v)[2]) \o JoinSlices(line, Tail(v))

\* the X0A money rule: abs(int(mv.strip())) if mv.strip().lstrip("-").isdigit() else 0
\* abs(int(...)), or the ValueError of int()
AbsInt(n) ==
    IF n.ok THEN Return(Abs(n.val))
    ELSE Raise("ValueError", "invalid literal for int()")

fmv_X0A(mv_raw) ==
    IF IsDigit(LStrip(StripChars(mv_raw, Whitespace), {"-"}))
    THEN AbsInt(PyInt(StripChars(mv_raw, Whitespace)))
    ELSE Return(0)

\* the B1N money rule: abs(int(mv.lstrip("0"))) if mv.strip("-").lstrip("0").isdigit() else 0
fmv_B1N(mv_raw) ==
    IF IsDigit(LStrip(StripChars(mv_raw, {"-"}), {"0"}))
    THEN AbsInt(PyInt(LStrip(mv_raw, {"0"})))
    ELSE Return(0)

\* lines 382-389: every field of the layout sliced out of the line
SliceFields(line, slices) ==
    [k \in DOMAIN slices |-> JoinSlices(line, slices[k])]

\* lines 393-399: fmv (and smv for X0A) added to the fields, unless int() raised
WithMoney(format_key, parsed_data, fmv) ==
    IF fmv.exc # "none" THEN fmv
    ELSE IF format_key = "X0A"
         THEN Return(parsed_data @@
                     [fmv |-> fmv.value, smv |-> Zfill(PyStr(fmv.value), 10)])
         ELSE Return(parsed_data @@ [fmv |-> fmv.value])

\* lines 390-397
ParseMoney(format_key, parsed_data) ==
    WithMoney(format_key, parsed_data,
              IF format_key = "X0A" THEN fmv_X0A(parsed_data["mv"])
              ELSE fmv_B1N(parsed_data["mv"]))

parse_line(line, format_key) ==
    IF format_key \notin DOMAIN LINE_FORMATS
    THEN Raise("ValueError", "Unknown format")
    ELSE ParseMoney(format_key, SliceFields(line, LINE_FORMATS[format_key]))

-----------------------------------------------------------------------------
(* Input lines of the JSF404 report *)

Spaces(n) == Repeat(" ", n)

\* s right-justified in a field of the given width, filled with c
RJust(s, width, c) == Repeat(c, width - Len(s)) \o s

\* a 182-character detail line: every field at its column, the money value
\* as 8 characters, a decimal point and 2 characters
DetailLine(di, fsc, niin, mv, rmks) ==
    Spaces(6) \o di \o Spaces(3) \o <<"R","1","2">> \o Spaces(3) \o <<"M">> \o Spaces(5)
    \o fsc \o Spaces(2) \o SubSeq(niin, 1, 2) \o <<"-">> \o SubSeq(niin, 3, 5)
    \o <<"-">> \o SubSeq(niin, 6, 9) \o Spaces(3) \o <<"E","A">> \o Spaces(4)
    \o <<"0","0","0","1","2">> \o Spaces(2) \o <<"V","2","1","3","4","5","4","0","0","1","0","0","0","1">> \o Spaces(2) \o <<"T","E","C","1">>
    \o Spaces(3) \o <<"R">> \o Spaces(5) \o <<"A">> \o Spaces(4) \o <<"F","C">>
    \o Spaces(3) \o <<"9","B">> \o Spaces(3) \o <<"P","R","J">> \o Spaces(3) \o <<"0","5">>
    \o Spaces(4) \o <<"A","D">> \o Spaces(3) \o <<"1","2","3">> \o Spaces(6) \o <<"4">>
    \o Spaces(6) \o SubSeq(mv, 1, 8) \o <<".">> \o SubSeq(mv, 9, 10)
    \o Spaces(3) \o rmks \o Spaces(18) \o <<"\n">>

\* a transaction line up to and including its money field (columns 72..82)
TransactionHead(mv) ==
    Spaces(6) \o <<"B","1","N">> \o Spaces(3) \o <<"V","2","1","3","4","5","4","0","0","1","0","0","0","1">> \o Spaces(6)
    \o <<"A","A">> \o Spaces(4) \o <<"J","O","N","1","2","3","4","5","6","7","8">> \o Spaces(5) \o <<"E">>
    \o Spaces(7) \o <<"O","C","C">> \o Spaces(7) \o mv

\* the rest of a transaction line, from column 83
TransactionTail ==
    Spaces(6) \o <<"G","L","1">> \o Spaces(6) \o <<"C">> \o Spaces(4) \o <<"4">>
    \o Spaces(6) \o <<"0","0","0","0","3">> \o Spaces(2) \o <<"E","A">> \o Spaces(2) \o <<"1","2","3">>
    \o Spaces(2) \o <<"9","B">> \o Spaces(2) \o <<"5","3","4","0">> \o <<" ">> \o <<"0","1","2","3","4","5","6","7","8">>
    \o <<"\n">>

TransactionLine(mv) == TransactionHead(mv) \o TransactionTail

-----------------------------------------------------------------------------
(* StarsFileCreator.create_stars *)

NoFile == [exists |-> FALSE, lines |-> <<>>]

\* (mutation) the fsc/niin variant without the two spaces after niin
FormatDetail_NoPad(d) ==
    IF d["fsc"] \o d["niin"] = Spaces(13)
    THEN d["di"] \o d["ri"] \o d["ms"] \o d["rmks"] \o d["ui"] \o d["qty"]
         \o d["doc_no"] \o Spaces(3) \o d["tec"] \o d["sig"] \o d["fc"]
         \o Spaces(1) \o d["cog"] \o d["prj"] \o d["pri"] \o Spaces(3)
         \o d["adv"] \o d["tn"] \o d["fy"] \o d["smv"] \o <<"\n">>
    ELSE d["di"] \o d["ri"] \o d["ms"] \o d["fsc"] \o d["niin"]
         \o d["ui"] \o d["qty"] \o d["doc_no"] \o Spaces(3) \o d["tec"]
         \o d["sig"] \o d["fc"] \o Spaces(1) \o d["cog"] \o d["prj"]
         \o d["pri"] \o Spaces(3) \o d["adv"] \o d["tn"] \o d["fy"]
         \o d["smv"] \o <<"\n">>

\* the detail template: the remarks variant when fsc + niin is 13 spaces
FormatDetail(d) ==
    IF d["fsc"] \o d["niin"] = Spaces(13)
    THEN d["di"] \o d["ri"] \o d["ms"] \o d["rmks"] \o d["ui"] \o d["qty"]
         \o d["doc_no"] \o Spaces(3) \o d["tec"] \o d["sig"] \o d["fc"]
         \o Spaces(1) \o d["cog"] \o d["prj"] \o d["pri"] \o Spaces(3)
         \o d["adv"] \o d["tn"] \o d["fy"] \o d["smv"] \o <<"\n">>
    ELSE d["di"] \o d["ri"] \o d["ms"] \o d["fsc"] \o d["niin"] \o Spaces(2)
         \o d["ui"] \o d["qty"] \o d["doc_no"] \o Spaces(3) \o d["tec"]
         \o d["sig"] \o d["fc"] \o Spaces(1) \o d["cog"] \o d["prj"]
         \o d["pri"] \o Spaces(3) \o d["adv"] \o d["tn"] \o d["fy"]
         \o d["smv"] \o <<"\n">>

\* the transaction template; parsed_data["di"][2] is an IndexError when di
\* has fewer than 3 characters
FormatTransaction(d) ==
    IF Len(d["di"]) < 3
    THEN Raise("IndexError", "string index out of range")
    ELSE Return(
         Slice(d["di"], 0, 2) \o <<" ","R","S","U","P","P"," "," "," ">> \o <<d["di"][3]>> \o d["doc_no"]
         \o Spaces(1) \o d["acrn"] \o d["jon"] \o d["exp"] \o d["mv"]
         \o d["gl"] \o d["cr_db"] \o Spaces(1) \o d["fy"] \o Spaces(36)
         \o d["qty"] \o Spaces(68) \o d["cog"] \o <<"Y">> \o Spaces(10)
         \o d["niin"] \o Spaces(79) \o d["tn"] \o d["fsc"] \o d["ui"]
         \o d["occ"] \o <<"\n">>)

\* (mutation) the B1N test comes first
Classify_TransactionFirst(line) ==
    IF Contains(<<"B","1","N">>, line) THEN "B1N"
    ELSE IF (Contains(<<"X","0","A">>, line) \/ Contains(<<"Z","0","A">>, line)) /\ Len(line) = 182
         THEN "X0A" ELSE "skip"

\* the if / elif / else of the loop body: which branch takes the line
Classify(line) ==
    IF (Contains(<<"X","0","A">>, line) \/ Contains(<<"Z","0","A">>, line)) /\ Len(line) = 182
    THEN "X0A"
    ELSE IF Contains(<<"B","1","N">>, line) THEN "B1N" ELSE "skip"

\* one pass of the loop body on a line that is not skipped: the formatted
\* line and its fmv, or the exception raised on the way
Formatted(f, fmv) ==
    IF f.exc # "none" THEN f
    ELSE Return([formatted_line |-> f.value, fmv |-> fmv])

FormatParsed(branch, parsed) ==
    IF parsed.exc # "none" THEN parsed
    ELSE IF branch = "X0A"
         THEN Formatted(Return(FormatDetail(parsed.value)), parsed.value["fmv"])
         ELSE Formatted(FormatTransaction(parsed.value), parsed.value["fmv"])

TransformAs(line, branch) == FormatParsed(branch, parse_line(line, branch))

TransformLine(line) == TransformAs(line, Classify(line))

Header(now) == <<"H","E","A","D","E","R","R","S","U","P","P","L","Y"," "," "," ">> \o now \o <<"\n">>

\* (mutation) total = fmv instead of total += fmv
AddTotal_Overwrite(t, fmv) == fmv

\* total += parsed_data.get("fmv", 0)
AddTotal(t, fmv) == t + fmv

\* (mutation) the line is inserted right after the header
AppendLine_AfterHeader(out, formatted_line) ==
    <<Head(out), formatted_line>> \o Tail(out)

\* output_lines.append(formatted_line)
AppendLine(out, formatted_line) == Append(out, formatted_line)

\* (mutation) the header row is counted
RecCount_WithHeader(out) == Zfill(PyStr(Len(out)), 15)

\* str(len(output_lines) - 1).zfill(15), the header row excluded
RecCount(out) == Zfill(PyStr(Len(out) - 1), 15)

\* (mutation) the total is written without its zero padding
Trailer_TotalUnpadded(out, t, p) ==
    <<"T","R","A","I","L","E","R","S","T","A","R","S","F","L"," "," "," ">> \o RecCount(out) \o PyStr(t) \o <<"s","t","a","r","s">>
    \o p \o <<"r",".","t","x","t","\n">>

Trailer(out, t, p) ==
    <<"T","R","A","I","L","E","R","S","T","A","R","S","F","L"," "," "," ">> \o RecCount(out) \o Zfill(PyStr(t), 19) \o <<"s","t","a","r","s">>
    \o p \o <<"r",".","t","x","t","\n">>

RECURSIVE LoopFrom(_, _, _, _)
RECURSIVE LoopPass(_, _, _, _, _)
\* the for loop from position k on, run to its end
LoopFrom(lines, k, out, t) ==
    IF k > Len(lines) THEN Return([output_lines |-> out, total |-> t])
    ELSE IF Classify(lines[k]) = "skip" THEN LoopFrom(lines, k + 1, out, t)
    ELSE LoopPass(lines, k, out, t, TransformLine(lines[k]))

\* lines 632-634 for the outcome r of line k, then the rest of the loop
LoopPass(lines, k, out, t, r) ==
    IF r.exc # "none" THEN r
    ELSE LoopFrom(lines, k + 1, AppendLine(out, r.value.formatted_line),
                  AddTotal(t, r.value.fmv))

\* lines 636-639 after the loop, unless the loop raised
WithTrailer(r, p) ==
    IF r.exc # "none" THEN r
    ELSE Return(Append(r.value.output_lines,
                       Trailer(r.value.output_lines, r.value.total, p)))

\* create_stars as one call: the frame handed to write_file, or the
\* exception that ended the call before write_file
create_stars(lines, now, p) ==
    WithTrailer(LoopFrom(lines, 1, <<Header(now)>>, 0), p)

-----------------------------------------------------------------------------
(* The inputs of create_stars *)

MaxLines == 2

Timestamps == {<<"2","0","2","4","0","1","3","1","2","3","5","9","5","9">>, <<"2","0","2","4","0","2","0","1","0","0","0","0","0","0">>}

Pids == {<<"0","0","1">>}

GoodDetail ==
    DetailLine(<<"X","0","A">>, <<"5","3","4","0">>, <<"0","1","2","3","4","5","6","7","8">>, <<" "," "," "," ","1","2","3","4","5","6">>, <<"R","E","M","A","R","K","S"," "," "," "," "," "," "," "," ">>)

\* a 182-character detail line whose remarks hold the text B1N
MarkedDetail ==
    DetailLine(<<"Z","0","A">>, <<"5","3","4","0">>, <<"0","1","2","3","4","5","6","7","8">>, <<" "," "," "," "," "," "," "," ","8","0">>, <<"S","E","E"," ","B","1","N"," "," "," "," "," "," "," "," ">>)

\* the same line one character short: 181 characters, both markers
ShortMarkedDetail == SubSeq(MarkedDetail, 2, 182)

\* a 182-character detail line whose fsc and niin columns are blank
BlankStockDetail ==
    DetailLine(<<"Z","0","A">>, Spaces(4), Spaces(9), <<" "," "," "," "," "," ","-","7","0","0">>, <<"G","A","S","K","E","T"," ","S","E","T"," ","4"," ","E","A">>)

InputLines ==
    { GoodDetail,
      BlankStockDetail,
      DetailLine(<<"X","0","A">>, <<"5","3","4","0">>, <<"0","1","2","3","4","5","6","7","8">>, <<" "," "," "," "," "," "," ","-","-","7">>, <<"R","E","M","A","R","K","S"," "," "," "," "," "," "," "," ">>),
      DetailLine(<<"X","0","A">>, <<"5","3","4","0">>, <<"0","1","2","3","4","5","6","7","8">>, <<" "," "," ","N","/","A"," "," "," "," ">>, <<"R","E","M","A","R","K","S"," "," "," "," "," "," "," "," ">>),
      MarkedDetail,
      ShortMarkedDetail,
      SubSeq(GoodDetail, 2, 182),
      TransactionLine(<<"0","0","0","0","0","0","1","2","3","4","5">>),
      TransactionLine(<<"-","0","0","0","0","0","0","0","7","0","0">>),
      TransactionLine(<<"0","0","0","0","0","0","0","7","0","0","-">>),
      <<"B","1","N","\n">>,
      <<" "," "," "," "," "," ","B","1","N","\n">>,
      <<"P","A","G","E"," ","1","\n">> }

RECURSIVE SeqsUpTo(_, _)
SeqsUpTo(S, n) ==
    IF n = 0 THEN {<<>>}
    ELSE LET shorter == SeqsUpTo(S, n - 1)
         IN  shorter \cup {Append(s, x) : s \in {t \in shorter : Len(t) = n - 1},
                                          x \in S}

InputFiles == SeqsUpTo(InputLines, MaxLines)

-----------------------------------------------------------------------------
(* Validator: dates *)

IsLeap(y) == (y % 4 = 0 /\ y % 100 # 0) \/ y % 400 = 0

DaysInMonth(y, m) ==
    IF m = 2 THEN (IF IsLeap(y) THEN 29 ELSE 28)
    ELSE IF m \in {4, 6, 9, 11} THEN 30 ELSE 31

\* a datetime.date and a datetime.datetime at midnight: Python's == between
\* the two types is False whatever the calendar day
PyDate(y, m, d) == [type |-> "date", year |-> y, month |-> m, day |-> d]

PyDatetime(y, m, d) == [type |-> "datetime", year |-> y, month |-> m, day |-> d]

\* (datetime(y, m, 1) + relativedelta(months=1, days=-1)).date()
get_last_day_of_month(current_date) ==
    PyDate(current_date.year, current_date.month,
           DaysInMonth(current_date.year, current_date.month))

\* (datetime(y, m, 1) + relativedelta(days=-1)).date()
get_last_day_of_previous_month(current_date) ==
    IF current_date.month = 1
    THEN PyDate(current_date.year - 1, 12, 31)
    ELSE PyDate(current_date.year, current_date.month - 1,
                DaysInMonth(current_date.year, current_date.month - 1))

\* dateutil.parser.parse on the strings the model feeds it: YYYY-MM-DD
\* (surrounding whitespace allowed) gives a datetime at midnight; the empty
\* string and a word such as NULL raise ParserError, a ValueError
DatetimeOf(y, m, d) ==
    IF y >= 1 /\ m \in 1..12 /\ d \in 1..DaysInMonth(y, m)
    THEN Return(PyDatetime(y, m, d))
    ELSE Raise("ValueError", "ParserError")

IsoShaped(t) ==
    /\ Len(t) = 10
    /\ t[5] = "-" /\ t[8] = "-"
    /\ IsDigit(SubSeq(t, 1, 4))
    /\ IsDigit(SubSeq(t, 6, 7))
    /\ IsDigit(SubSeq(t, 9, 10))

ParseStripped(t) ==
    IF IsoShaped(t)
    THEN DatetimeOf(DigitsValue(SubSeq(t, 1, 4)), DigitsValue(SubSeq(t, 6, 7)),
                    DigitsValue(SubSeq(t, 9, 10)))
    ELSE Raise("ValueError", "ParserError")

DateutilParse(s) == ParseStripped(StripChars(s, Whitespace))

-----------------------------------------------------------------------------
(* Validator.parse_valfile *)

RECURSIVE AfterColon(_)
\* s.partition(":")[-1]: what follows the first colon, "" when there is none
AfterColon(s) ==
    IF s = <<>> THEN <<>>
    ELSE IF Head(s) = ":" THEN Tail(s) ELSE AfterColon(Tail(s))

\* val_lines[i].strip().partition(":")[-1]
FactText(line) == AfterColon(StripChars(line, Whitespace))

\* the reads of parse_valfile in the order the code makes them: the name,
\* the 0-based line, and whether dateutil parses the value
FactReads ==
    << <<"var_parm_bordt", 0, TRUE>>, <<"bor_tldt", 3, TRUE>>,
       <<"fin_tldt", 6, TRUE>>, <<"material_request_tldt", 9, TRUE>>,
       <<"bor_tl_no", 2, FALSE>>, <<"fin_tl_no", 5, FALSE>>,
       <<"material_request_tl_no", 8, FALSE>>, <<"bor_fy", 1, FALSE>>,
       <<"fin_fy", 4, FALSE>>, <<"material_request_fy", 7, FALSE>> >>

FactNames == {FactReads[k][1] : k \in 1..Len(FactReads)}

\* one read: the value, or IndexError / the parser's error
ReadFact(val_lines, read) ==
    IF read[2] >= Len(val_lines)
    THEN Raise("IndexError", "list index out of range")
    ELSE IF read[3] THEN DateutilParse(FactText(val_lines[read[2] + 1]))
    ELSE Return(FactText(val_lines[read[2] + 1]))

RECURSIVE ReadFacts(_, _, _)
RECURSIVE GotFact(_, _, _, _)
ReadFacts(val_lines, k, got) ==
    IF k > Len(FactReads) THEN Return(got)
    ELSE GotFact(val_lines, k, got, ReadFact(val_lines, FactReads[k]))

\* the first read that raises ends parse_valfile
GotFact(val_lines, k, got, r) ==
    IF r.exc # "none" THEN r
    ELSE ReadFacts(val_lines, k + 1, got @@ (FactReads[k][1] :> r.value))

parse_valfile(val_lines) == ReadFacts(val_lines, 1, <<>>)

-----------------------------------------------------------------------------
(* Validator: the three checks *)

Report(check, status) == [kind |-> "report", check |-> check, status |-> status]

Prompt(which) == [kind |-> "prompt", check |-> which, status |-> ""]

check_varparm_bordt(monthly, var_parm_bordt, fin_tldt, current_date) ==
    LET is_good ==
            \/ /\ monthly = <<"n">>
               /\ var_parm_bordt = get_last_day_of_previous_month(current_date)
            \/ /\ monthly = <<"y">>
               /\ var_parm_bordt = fin_tldt
               /\ fin_tldt = get_last_day_of_month(current_date)
    IN  Report("bor", IF is_good THEN "BOR date is good!"
                      ELSE "BOR date is no good!")

check_mrdt_bortecdt(material_request_tldt, bor_tldt) ==
    Report("mrdt", IF material_request_tldt = bor_tldt
                   THEN "material_request_tbl tl date matches"
                   ELSE "material_request_tbl tl date doesn't match")

\* (mutation) only the first two numbers are compared
check_tl_no_FirstTwo(bor_tl_no, fin_tl_no, material_request_tl_no) ==
    Report("tl", IF bor_tl_no = fin_tl_no
                 THEN "TL numbers match."
                 ELSE "TL numbers do not match!")

check_tl_no(bor_tl_no, fin_tl_no, material_request_tl_no) ==
    Report("tl", IF bor_tl_no = fin_tl_no /\ fin_tl_no = material_request_tl_no
                 THEN "TL numbers match."
                 ELSE "TL numbers do not match!")

\* lines 304 and 309-311: the three reports val_parameters makes on a query
\* result that parse_valfile accepts
ChecksOn(val_lines, monthly, current_date) ==
    LET got == parse_valfile(val_lines).value
    IN  [bor |-> check_varparm_bordt(monthly, got["var_parm_bordt"],
                                     got["fin_tldt"], current_date),
         mrdt |-> check_mrdt_bortecdt(got["material_request_tldt"],
                                      got["bor_tldt"]),
         tl |-> check_tl_no(got["bor_tl_no"], got["fin_tl_no"],
                            got["material_request_tl_no"])]

-----------------------------------------------------------------------------
(* str.lower on the answers typed at a prompt *)

UpperCase == <<"A","B","C","D","E","F","G","H","I","J","K","L","M","N","O","P","Q","R","S","T","U","V","W","X","Y","Z">>

LowerCase == <<"a","b","c","d","e","f","g","h","i","j","k","l","m","n","o","p","q","r","s","t","u","v","w","x","y","z">>

LowerChar(c) ==
    IF \E k \in 1..26 : UpperCase[k] = c
    THEN LowerCase[CHOOSE k \in 1..26 : UpperCase[k] = c]
    ELSE c

\* input(...).strip().lower()
Lower(t) == [k \in 1..Len(t) |-> LowerChar(t[k])]

Answer(typed) == Lower(StripChars(typed, Whitespace))

\* (mutation) the decision does not look at the answer
ValConfirmation_Always(answer) == TRUE

\* line 317: val_confirmation == "y"
ValConfirmation(answer) == answer = <<"y">>

-----------------------------------------------------------------------------
(* The inputs of the validation workflow *)

MaxPerturb == 2

MaxPrompts == 2

FactLabels ==
    << <<"V","a","r","P","a","r","m","D","a","t","e">>, <<"b","o","r","_","m","o","_","r","p","t","F","Y">>, <<"b","o","r","_","m","o","_","r","p","t","T","L">>, <<"b","o","r","_","m","o","_","r","p","t","T","L","d","t">>,
       <<"f","i","n","_","t","r","n","s","m","t","l","F","Y">>, <<"f","i","n","_","t","r","n","s","m","t","l","T","L">>, <<"f","i","n","_","t","r","n","s","m","t","l","T","L","d","t">>,
       <<"m","a","t","e","r","i","a","l","_","r","e","q","u","e","s","t","_","t","b","l","F","Y">>, <<"m","a","t","e","r","i","a","l","_","r","e","q","u","e","s","t","_","t","b","l","T","L">>,
       <<"m","a","t","e","r","i","a","l","_","r","e","q","u","e","s","t","_","t","b","l","T","L","d","t">> >>

BaseValues ==
    << <<"2","0","2","4","-","0","1","-","3","1">>, <<"2","0","2","4">>, <<"0","0","4","2">>, <<"2","0","2","4","-","0","1","-","3","1">>, <<"2","0","2","4">>, <<"0","0","4","2">>,
       <<"2","0","2","4","-","0","1","-","3","1">>, <<"2","0","2","4">>, <<"0","0","4","2">>, <<"2","0","2","4","-","0","1","-","3","1">> >>

AltValues ==
    << <<"2","0","2","4","-","0","2","-","2","9">>, <<"2","0","2","3">>, <<"0","0","4","1">>, <<"2","0","2","4","-","0","2","-","2","9">>, <<"2","0","2","3">>, <<"0","0","4","1">>,
       <<"2","0","2","4","-","0","2","-","2","9">>, <<"2","0","2","3">>, <<"0","0","4","1">>, <<"2","0","2","4","-","0","2","-","2","9">> >>

FactLine(k, value) == FactLabels[k] \o <<":"," ">> \o value \o <<"\n">>

\* the query result with the facts at the positions in changed replaced
ValFileOf(changed) ==
    [k \in 1..10 |-> FactLine(k, IF k \in changed THEN AltValues[k]
                                 ELSE BaseValues[k])]

BaseValFile == ValFileOf({})

WellFormedValFiles ==
    {ValFileOf(c) : c \in {d \in SUBSET (1..10) : Cardinality(d) <= MaxPerturb}}

\* results that do not have the ten-line label: value shape
MalformedValFiles ==
    { SubSeq(BaseValFile, 1, 9),
      <<>>,
      Append(BaseValFile, <<"(","1","0"," ","r","o","w","s"," ","a","f","f","e","c","t","e","d",")","\n">>),
      [BaseValFile EXCEPT ![3] = <<"b","o","r","_","m","o","_","r","p","t","T","L"," ","0","0","4","2","\n">>],
      [BaseValFile EXCEPT ![4] = <<"b","o","r","_","m","o","_","r","p","t","T","L","d","t"," ","2","0","2","4","-","0","1","-","3","1","\n">>],
      [BaseValFile EXCEPT ![10] = FactLine(10, <<"N","U","L","L">>)],
      [BaseValFile EXCEPT ![7] = FactLine(7, <<"2","0","2","4","-","0","2","-","3","0">>)] }

ValFiles == WellFormedValFiles \cup MalformedValFiles

Todays == {PyDate(2024, 2, 15), PyDate(2024, 1, 10), PyDate(2024, 3, 1)}

MonthlyFlags == {<<>>, <<"y">>, <<"n">>}

MonthlyAnswers == {<<"y">>, <<"N"," ">>, <<"x">>}

GateAnswers == {<<"y">>, <<"n">>, <<" ","Y","\n">>, <<"N">>, <<"y","e","s">>, <<>>}

\* the report files run_stars_creator hands to create_stars
RunFiles == {<<>>, <<GoodDetail, <<"P","A","G","E"," ","1","\n">>>>, <<<<"B","1","N","\n">>>>}

NoFacts == [n \in FactNames |-> <<>>]

\* the validation variables while the workflow is not running
ValIdle ==
    /\ validate = FALSE
    /\ is_monthly = <<>>
    /\ today = PyDate(2024, 2, 15)
    /\ valfile = <<>>
    /\ facts = NoFacts
    /\ console = <<>>
    /\ gate_answer = <<>>
    /\ val_confirmation = FALSE
    /\ create_called = FALSE

-----------------------------------------------------------------------------
(* create_stars, one loop pass per step *)

Init ==
    /\ pc = "create_stars"
    /\ pid \in Pids
    /\ original_lines = <<>>
    /\ idx = 1
    /\ output_lines = <<>>
    /\ total = 0
    /\ outfile = NoFile
    /\ exc = "none"
    /\ p_line = <<>>
    /\ p_key = ""
    /\ p_result = Return(<<>>)
    /\ ValIdle

\* lines 554-560: the header, read_file(infile), total = 0
CS_Begin ==
    /\ pc = "create_stars"
    /\ \E now \in Timestamps, file \in InputFiles :
          /\ output_lines' = <<Header(now)>>
          /\ original_lines' = file
    /\ total' = 0
    /\ idx' = 1
    /\ pc' = "cs_loop"
    /\ UNCHANGED <<pid, outfile, exc, parse_vars, val_vars>>

\* the end of a loop pass that parsed a line (lines 632-634), or the
\* exception leaving create_stars
CS_Apply(r) ==
    IF r.exc # "none"
    THEN /\ pc' = "cs_raised"
         /\ exc' = r.exc
         /\ UNCHANGED <<idx, output_lines, total>>
    ELSE /\ total' = AddTotal(total, r.value.fmv)
         /\ output_lines' = AppendLine(output_lines, r.value.formatted_line)
         /\ idx' = idx + 1
         /\ UNCHANGED <<pc, exc>>

\* lines 564-594 and 632-634: a loop pass on a detail line
CS_Detail ==
    /\ pc = "cs_loop"
    /\ idx <= Len(original_lines)
    /\ Classify(original_lines[idx]) = "X0A"
    /\ CS_Apply(TransformLine(original_lines[idx]))
    /\ UNCHANGED <<pid, original_lines, outfile, parse_vars, val_vars>>

\* lines 596-628 and 632-634: a loop pass on a transaction line
CS_Transaction ==
    /\ pc = "cs_loop"
    /\ idx <= Len(original_lines)
    /\ Classify(original_lines[idx]) = "B1N"
    /\ CS_Apply(TransformLine(original_lines[idx]))
    /\ UNCHANGED <<pid, original_lines, outfile, parse_vars, val_vars>>

\* lines 630-631: continue
CS_Skip ==
    /\ pc = "cs_loop"
    /\ idx <= Len(original_lines)
    /\ Classify(original_lines[idx]) = "skip"
    /\ idx' = idx + 1
    /\ UNCHANGED <<pc, pid, original_lines, output_lines, total, outfile, exc,
                   parse_vars, val_vars>>

\* lines 636-639
CS_Trailer ==
    /\ pc = "cs_loop"
    /\ idx > Len(original_lines)
    /\ output_lines' = Append(output_lines, Trailer(output_lines, total, pid))
    /\ pc' = "cs_write"
    /\ UNCHANGED <<pid, original_lines, idx, total, outfile, exc, parse_vars, val_vars>>

\* (mutation) the frame is also written from inside the loop
CS_WriteFile_InLoop ==
    /\ pc \in {"cs_loop", "cs_write"}
    /\ outfile' = [exists |-> TRUE, lines |-> output_lines]
    /\ pc' = IF pc = "cs_write" THEN "cs_done" ELSE pc
    /\ UNCHANGED <<pid, original_lines, idx, output_lines, total, exc,
                   parse_vars, val_vars>>

\* line 642: write_file(outfile, output_lines)
CS_WriteFile ==
    /\ pc = "cs_write"
    /\ outfile' = [exists |-> TRUE, lines |-> output_lines]
    /\ pc' = "cs_done"
    /\ UNCHANGED <<pid, original_lines, idx, output_lines, total, exc,
                   parse_vars, val_vars>>

Next ==
    \/ CS_Begin
    \/ CS_Detail
    \/ CS_Transaction
    \/ CS_Skip
    \/ CS_Trailer
    \/ CS_WriteFile

Spec == Init /\ [][Next]_vars

-----------------------------------------------------------------------------
(* The frame read back *)

HeaderTag == <<"H","E","A","D","E","R","R","S","U","P","P","L","Y"," "," "," ">>

TrailerTag == <<"T","R","A","I","L","E","R","S","T","A","R","S","F","L"," "," "," ">>

IsHeaderLine(l) ==
    /\ Len(l) = Len(HeaderTag) + 15
    /\ SubSeq(l, 1, Len(HeaderTag)) = HeaderTag
    /\ IsDigit(SubSeq(l, Len(HeaderTag) + 1, Len(l) - 1))
    /\ l[Len(l)] = "\n"

IsTrailerLine(l) ==
    /\ Len(l) >= Len(TrailerTag) + 34
    /\ SubSeq(l, 1, Len(TrailerTag)) = TrailerTag

\* the 15 characters of the trailer's record count
TrailerCountField(l) == SubSeq(l, Len(TrailerTag) + 1, Len(TrailerTag) + 15)

\* what follows the record count up to the literal "stars"
TrailerTotalField(l) == SubSeq(l, Len(TrailerTag) + 16, Len(l) - 14)

\* the positions of the lines that match a known format
MatchedAt(lines) == {k \in 1..Len(lines) : Classify(lines[k]) # "skip"}

RECURSIVE ExpectedBody(_)
\* the transformed lines of the matching lines, in file order
ExpectedBody(lines) ==
    IF lines = <<>> THEN <<>>
    ELSE IF Classify(Head(lines)) = "skip" THEN ExpectedBody(Tail(lines))
    ELSE <<TransformLine(Head(lines)).value.formatted_line>>
         \o ExpectedBody(Tail(lines))

RECURSIVE SumFmv(_)
\* the sum of the fmv of the matching lines, in file order
SumFmv(lines) ==
    IF lines = <<>> THEN 0
    ELSE IF Classify(Head(lines)) = "skip" THEN SumFmv(Tail(lines))
    ELSE parse_line(Head(lines), Classify(Head(lines))).value["fmv"]
         + SumFmv(Tail(lines))

\* the same lines in every other order
Reorderings(lines) ==
    {[k \in 1..Len(lines) |-> lines[p[k]]] : p \in Permutations(1..Len(lines))}

\* C1: when create_stars has finished, the record count in the trailer is
\* the number of lines between header and trailer, and that is the number
\* of input lines that matched a known format (skipped lines add nothing).
C1_TrailerCount ==
    pc = "cs_done" =>
        LET frame == outfile.lines
            count == PyInt(TrailerCountField(frame[Len(frame)]))
        IN  /\ Len(TrailerCountField(frame[Len(frame)])) = 15
            /\ count.ok
            /\ count.val = Len(frame) - 2
            /\ count.val = Cardinality(MatchedAt(original_lines))

C1_Witness ==
    /\ pc = "cs_done"
    /\ Len(outfile.lines) = 3
    /\ Len(original_lines) = 2

\* C2: the total starts at zero, and the total in the trailer is the sum of
\* the fmv of the transformed lines in file order; create_stars on the same
\* lines in any other order writes the same total.
C2_TrailerTotal ==
    /\ pc = "cs_loop" /\ idx = 1 => total = 0
    /\ pc = "cs_done" =>
        LET trailer == outfile.lines[Len(outfile.lines)]
        IN  /\ total = SumFmv(original_lines)
            /\ TrailerTotalField(trailer) = Zfill(PyStr(SumFmv(original_lines)), 19)
            /\ \A other \in Reorderings(original_lines) :
                  LET run == create_stars(other, <<"2","0","2","4","0","1","3","1","2","3","5","9","5","9">>, pid)
                  IN  /\ run.exc = "none"
                      /\ TrailerTotalField(run.value[Len(run.value)])
                            = TrailerTotalField(trailer)

C2_Witness ==
    /\ pc = "cs_done"
    /\ Len(outfile.lines) = 4
    /\ original_lines[1] # original_lines[2]
    /\ total > 0
    /\ \A k \in 1..2 : parse_line(original_lines[k],
                                  Classify(original_lines[k])).value["fmv"] > 0

\* C3: the frame is one header, then the transformed lines in the order of
\* their source lines, then one trailer: while the loop runs the frame is
\* the header followed by the transformed lines of the lines passed so far,
\* and the finished frame adds exactly the trailer.
C3_FrameOrder ==
    /\ pc = "cs_loop" =>
          /\ IsHeaderLine(Head(output_lines))
          /\ Tail(output_lines) = ExpectedBody(SubSeq(original_lines, 1, idx - 1))
    /\ pc \in {"cs_write", "cs_done"} =>
          /\ IsHeaderLine(Head(output_lines))
          /\ SubSeq(output_lines, 2, Len(output_lines) - 1)
                = ExpectedBody(original_lines)
          /\ IsTrailerLine(output_lines[Len(output_lines)])
          /\ Len(output_lines) = Cardinality(MatchedAt(original_lines)) + 2
    /\ pc = "cs_done" => outfile.lines = output_lines

C3_Witness ==
    /\ pc = "cs_done"
    /\ Len(outfile.lines) = 4
    /\ outfile.lines[2] # outfile.lines[3]

\* C5 (as claimed): no line that contains B1N ends the run; the run raises
\* on no such line.
C5_NoLineAborts ==
    ~(pc = "cs_raised" /\ Contains(<<"B","1","N">>, original_lines[idx]))

NothingMatched == pc = "cs_done" /\ MatchedAt(original_lines) = {}

\* C11 (as claimed): for a file in which no line matches a known format,
\* the empty file included, the frame is header and trailer only, the
\* trailer's count field is 15 zeros and its total field is 20 zeros.
C11_EmptyFrame_AsClaimed ==
    NothingMatched =>
        LET trailer == outfile.lines[Len(outfile.lines)]
        IN  /\ Len(outfile.lines) = 2
            /\ IsHeaderLine(outfile.lines[1])
            /\ IsTrailerLine(trailer)
            /\ TrailerCountField(trailer) = <<"0","0","0","0","0","0","0","0","0","0","0","0","0","0","0">>
            /\ TrailerTotalField(trailer) = <<"0","0","0","0","0","0","0","0","0","0","0","0","0","0","0","0","0","0","0","0">>

\* C11 (amended): for a file in which no line matches a known format, the
\* empty file included, the frame is header and trailer only, the trailer's
\* count field is 15 zeros and its total field is 19 zeros: the trailer is
\* the tag, the 34 zeros, "stars", the pid and "r.txt".
C11_EmptyFrame ==
    NothingMatched =>
        LET trailer == outfile.lines[Len(outfile.lines)]
        IN  /\ Len(outfile.lines) = 2
            /\ IsHeaderLine(outfile.lines[1])
            /\ IsTrailerLine(trailer)
            /\ TrailerCountField(trailer) = <<"0","0","0","0","0","0","0","0","0","0","0","0","0","0","0">>
            /\ TrailerTotalField(trailer) = <<"0","0","0","0","0","0","0","0","0","0","0","0","0","0","0","0","0","0","0">>
            /\ trailer = TrailerTag \o <<"0","0","0","0","0","0","0","0","0","0","0","0","0","0","0">>
                            \o <<"0","0","0","0","0","0","0","0","0","0","0","0","0","0","0","0","0","0","0">> \o <<"s","t","a","r","s">> \o pid
                            \o <<"r",".","t","x","t","\n">>

C11_Witness ==
    /\ NothingMatched
    /\ Len(original_lines) = 2
    /\ outfile.exists

\* the step taken on the current line is the handling of the given layout:
\* the line parsed and formatted in that layout is appended and its fmv
\* added, or the exception of that parse or format leaves create_stars
HandledAs(layout) ==
    LET r == TransformAs(original_lines[idx], layout)
    IN  IF r.exc # "none"
        THEN pc' = "cs_raised" /\ exc' = r.exc /\ output_lines' = output_lines
        ELSE /\ output_lines' = Append(output_lines, r.value.formatted_line)
             /\ total' = total + r.value.fmv
             /\ idx' = idx + 1
             /\ pc' = "cs_loop"

\* the step taken on the current line drops it
HandledAsSkipped ==
    /\ output_lines' = output_lines
    /\ total' = total
    /\ idx' = idx + 1
    /\ pc' = "cs_loop"

HasDetailMarker(line) == Contains(<<"X","0","A">>, line) \/ Contains(<<"Z","0","A">>, line)

\* C12: every loop pass handles its line in exactly one of three ways:
\* as detail if and only if the line contains X0A or Z0A and is exactly 182
\* characters long (terminator included); otherwise as transaction if and
\* only if it contains B1N; otherwise it is skipped. So a 182-character
\* line with a detail marker and B1N is a detail, and a line with a detail
\* marker of another length is a transaction when it contains B1N and is
\* skipped when it does not.
C12_Classification ==
    [][ pc = "cs_loop" /\ idx <= Len(original_lines) =>
          LET line == original_lines[idx]
              detail == HasDetailMarker(line) /\ Len(line) = 182
              transaction == ~detail /\ Contains(<<"B","1","N">>, line)
          IN  /\ detail => HandledAs("X0A") /\ ~HandledAsSkipped
              /\ transaction => HandledAs("B1N") /\ ~HandledAsSkipped
              /\ ~detail /\ ~transaction => HandledAsSkipped
       ]_vars

\* a run that has passed a 182-character line with both markers (taken as
\* detail), the same line one character short (taken as transaction) and
\* now stands after them
C12_Witness ==
    /\ pc = "cs_loop"
    /\ idx = 3
    /\ original_lines = <<MarkedDetail, ShortMarkedDetail>>
    /\ Len(output_lines) = 3
    /\ output_lines[2] = TransformAs(MarkedDetail, "X0A").value.formatted_line
    /\ output_lines[3] = TransformAs(ShortMarkedDetail, "B1N").value.formatted_line

\* columns a..b of a line, counted from 1
Cols(line, a, b) == SubSeq(line, a, b)

\* the stock columns (fsc and the three parts of niin) of a detail line
StockCols(line) ==
    Cols(line, 25, 28) \o Cols(line, 31, 32) \o Cols(line, 34, 36)
    \o Cols(line, 38, 41)

\* the magnitude of the money columns of a detail line: blanks stripped,
\* one leading minus allowed, the digits' value, otherwise zero
DetailMagnitude(line) ==
    LET t == StripChars(Cols(line, 135, 142) \o Cols(line, 144, 145), Whitespace)
    IN  IF IsDigit(t) THEN DigitsValue(t)
        ELSE IF t # <<>> /\ Head(t) = "-" /\ IsDigit(Tail(t))
             THEN DigitsValue(Tail(t))
             ELSE 0

\* the columns both templates share after the stock or remarks columns
TemplateRest(line) ==
    Cols(line, 45, 46) \o Cols(line, 51, 55) \o Cols(line, 58, 71)
    \o Spaces(3) \o Cols(line, 74, 77) \o Cols(line, 87, 87)
    \o Cols(line, 92, 93) \o Spaces(1) \o Cols(line, 97, 98)
    \o Cols(line, 102, 104) \o Cols(line, 108, 109) \o Spaces(3)
    \o Cols(line, 114, 115) \o Cols(line, 119, 121) \o Cols(line, 128, 128)

\* the emitted line without its money field and newline, by template
TemplateFront(line) ==
    Cols(line, 7, 9) \o Cols(line, 13, 15) \o Cols(line, 19, 19)
    \o (IF StockCols(line) = Spaces(13)
        THEN Cols(line, 149, 163)
        ELSE StockCols(line) \o Spaces(2))
    \o TemplateRest(line)

\* C14: the line emitted for a 182-character line with a detail marker
\* follows the template of its branch (remarks-bearing when the fsc and
\* niin columns are all spaces, fsc/niin-bearing otherwise); its last ten
\* characters before the newline are the decimal digits of the magnitude,
\* left-padded with zeros; it is 80 characters plus a newline in both
\* branches.
C14_DetailTemplate ==
    /\ pc = "cs_loop"
    /\ idx > 1
    /\ HasDetailMarker(original_lines[idx - 1])
    /\ Len(original_lines[idx - 1]) = 182
    => LET line == original_lines[idx - 1]
           emitted == output_lines[Len(output_lines)]
           smv == SubSeq(emitted, 71, 80)
       IN  /\ Len(emitted) = 81
           /\ emitted[81] = "\n"
           /\ SubSeq(emitted, 1, 70) = TemplateFront(line)
           /\ Len(smv) = 10
           /\ IsDigit(smv)
           /\ DigitsValue(smv) = DetailMagnitude(line)

\* a run that has emitted a line of each branch, the remarks-bearing one
\* with a negative amount
C14_Witness ==
    /\ pc = "cs_loop"
    /\ idx = 3
    /\ original_lines = <<GoodDetail, BlankStockDetail>>
    /\ Len(output_lines) = 3
    /\ SubSeq(output_lines[3], 8, 22) = <<"G","A","S","K","E","T"," ","S","E","T"," ","4"," ","E","A">>
    /\ SubSeq(output_lines[2], 8, 22) = <<"5","3","4","0","0","1","2","3","4","5","6","7","8"," "," ">>

-----------------------------------------------------------------------------
(* parse_line as a function of its two arguments *)

MaxMvLen == 3

MvAlphabet == {"0", "7", "-", " ", "a"}

RECURSIVE StringsUpTo(_, _)
StringsUpTo(alphabet, n) ==
    IF n = 0 THEN {<<>>}
    ELSE LET shorter == StringsUpTo(alphabet, n - 1)
         IN  shorter \cup {Append(s, c) : s \in {t \in shorter : Len(t) = n - 1},
                                          c \in alphabet}

MvStrings == StringsUpTo(MvAlphabet, MaxMvLen)

\* the lines handed to parse_line: the money field is the string itself (a
\* line that ends inside the field), or the string right-justified with
\* zeros or with spaces in a complete line
ParseLines ==
    {TransactionHead(s) : s \in MvStrings}
    \cup {TransactionLine(RJust(s, 11, "0")) : s \in MvStrings}
    \cup {DetailLine(<<"X","0","A">>, <<"5","3","4","0">>, <<"0","1","2","3","4","5","6","7","8">>, RJust(s, 10, " "),
                     <<"R","E","M","A","R","K","S"," "," "," "," "," "," "," "," ">>) : s \in MvStrings}
    \cup {<<"B","1","N","\n">>, <<>>}

FormatKeys == {"X0A", "B1N", "Z0A", "b1n"}

InitParse ==
    /\ pc = "parse_line"
    /\ p_line \in ParseLines
    /\ p_key \in FormatKeys
    /\ p_result = Return(<<>>)
    /\ pid = <<>>
    /\ original_lines = <<>>
    /\ idx = 1
    /\ output_lines = <<>>
    /\ total = 0
    /\ outfile = NoFile
    /\ exc = "none"
    /\ ValIdle

CallParseLine ==
    /\ pc = "parse_line"
    /\ p_result' = parse_line(p_line, p_key)
    /\ pc' = "parse_line_done"
    /\ UNCHANGED <<p_line, p_key, cs_vars, exc, val_vars>>

NextParse == CallParseLine

SpecParse == InitParse /\ [][NextParse]_vars

\* the money substring of the line under the layout of the key
MoneySubstring(line, key) == JoinSlices(line, LINE_FORMATS[key]["mv"])

\* not a well-formed number: a character that is neither digit nor minus,
\* more than one minus, or a minus that is not in front
NotWellFormed(s) ==
    LET t == StripChars(s, Whitespace)
    IN  \/ \E k \in 1..Len(t) : t[k] \notin Digits \cup {"-"}
        \/ Cardinality({k \in 1..Len(t) : t[k] = "-"}) > 1
        \/ \E k \in 2..Len(t) : t[k] = "-"

\* C4 (as claimed): with a known format key parse_line returns a record for
\* every line, its fmv is a non-negative integer, and fmv is 0 when the
\* money substring is not a well-formed number; parse_line raises only for
\* an unknown format key.
C4_ParseNeverRaisesOnContent ==
    pc = "parse_line_done" =>
        /\ p_key \in {"X0A", "B1N"} =>
              /\ p_result.exc = "none"
              /\ p_result.value["fmv"] \in Nat
              /\ NotWellFormed(MoneySubstring(p_line, p_key))
                    => p_result.value["fmv"] = 0
        /\ p_result.exc # "none" => p_key \notin {"X0A", "B1N"}

\* the reference rule for the transaction money substring: leading zeros
\* stripped, then any leading minus stripped; if the remainder is all digits
\* the absolute integer value of the zero-stripped string, otherwise zero
ReferenceMagnitude(mv) ==
    LET zero_stripped == LStrip(mv, {"0"})
        remainder == LStrip(zero_stripped, {"-"})
    IN  IF IsDigit(remainder) /\ PyInt(zero_stripped).ok
        THEN Abs(PyInt(zero_stripped).val)
        ELSE 0

\* C13 (as claimed): for the B1N layout parse_line computes, for every money
\* substring, the magnitude of the reference rule: a zero-padded value whose
\* minus follows the padding zeros gives its absolute value, an all-zero
\* substring gives zero, a remainder that is not all digits gives zero.
C13_TransactionMagnitude ==
    pc = "parse_line_done" /\ p_key = "B1N" =>
        /\ p_result.exc = "none"
        /\ p_result.value["fmv"] = ReferenceMagnitude(MoneySubstring(p_line, "B1N"))

-----------------------------------------------------------------------------
(* run_stars_creator from line 689, with Validator.val_parameters *)

InitVal ==
    /\ pc = "run_stars_creator"
    /\ validate \in BOOLEAN
    /\ is_monthly \in MonthlyFlags
    /\ today \in Todays
    /\ pid \in Pids
    /\ valfile = <<>>
    /\ facts = NoFacts
    /\ console = <<>>
    /\ gate_answer = <<>>
    /\ val_confirmation = FALSE
    /\ create_called = FALSE
    /\ original_lines = <<>>
    /\ idx = 1
    /\ output_lines = <<>>
    /\ total = 0
    /\ outfile = NoFile
    /\ exc = "none"
    /\ p_line = <<>>
    /\ p_key = ""
    /\ p_result = Return(<<>>)

loop_vars == <<original_lines, idx, output_lines, total>>

\* lines 690-692: the validator is built and val_parameters called
RSC_Validate ==
    /\ pc = "run_stars_creator"
    /\ validate
    /\ pc' = "val_parameters"
    /\ UNCHANGED <<validate, is_monthly, today, valfile, facts, console,
                   gate_answer, val_confirmation, create_called, pid,
                   loop_vars, outfile, exc, parse_vars>>

\* line 690 with self.validate false: straight to the file creation
RSC_NoValidate ==
    /\ pc = "run_stars_creator"
    /\ ~validate
    /\ pc' = "rsc_create"
    /\ UNCHANGED <<validate, is_monthly, today, valfile, facts, console,
                   gate_answer, val_confirmation, create_called, pid,
                   loop_vars, outfile, exc, parse_vars>>

\* lines 297-302: the query is run and the interpreter writes VALFILE
VAL_Query ==
    /\ pc = "val_parameters"
    /\ valfile' \in ValFiles
    /\ pc' = "val_parse"
    /\ UNCHANGED <<validate, is_monthly, today, facts, console, gate_answer,
                   val_confirmation, create_called, pid, loop_vars, outfile,
                   exc, parse_vars>>

\* line 304: parse_valfile returns the ten facts or raises
VAL_Parsed(r) ==
    IF r.exc # "none"
    THEN /\ pc' = "raised"
         /\ exc' = r.exc
         /\ UNCHANGED facts
    ELSE /\ pc' = "val_monthly"
         /\ facts' = r.value
         /\ UNCHANGED exc

VAL_Parse ==
    /\ pc = "val_parse"
    /\ VAL_Parsed(parse_valfile(valfile))
    /\ UNCHANGED <<validate, is_monthly, today, valfile, console, gate_answer,
                   val_confirmation, create_called, pid, loop_vars, outfile,
                   parse_vars>>

\* lines 306-307: the monthly prompt, asked only when no flag was given
VAL_Monthly ==
    /\ pc = "val_monthly"
    /\ IF is_monthly = <<>>
       THEN /\ \E typed \in MonthlyAnswers : is_monthly' = Answer(typed)
            /\ console' = Append(console, Prompt("monthly"))
       ELSE UNCHANGED <<is_monthly, console>>
    /\ pc' = "val_check_bor"
    /\ UNCHANGED <<validate, today, valfile, facts, gate_answer,
                   val_confirmation, create_called, pid, loop_vars, outfile,
                   exc, parse_vars>>

\* line 309
VAL_CheckBor ==
    /\ pc = "val_check_bor"
    /\ console' = Append(console,
                         check_varparm_bordt(is_monthly, facts["var_parm_bordt"],
                                             facts["fin_tldt"], today))
    /\ pc' = "val_check_mrdt"
    /\ UNCHANGED <<validate, is_monthly, today, valfile, facts, gate_answer,
                   val_confirmation, create_called, pid, loop_vars, outfile,
                   exc, parse_vars>>

\* (mutation) the second check is not reported
VAL_CheckMrdt_Silent ==
    /\ pc = "val_check_mrdt"
    /\ pc' = "val_check_tl"
    /\ UNCHANGED <<validate, is_monthly, today, valfile, facts, console,
                   gate_answer, val_confirmation, create_called, pid,
                   loop_vars, outfile, exc, parse_vars>>

\* line 310
VAL_CheckMrdt ==
    /\ pc = "val_check_mrdt"
    /\ console' = Append(console,
                         check_mrdt_bortecdt(facts["material_request_tldt"],
                                             facts["bor_tldt"]))
    /\ pc' = "val_check_tl"
    /\ UNCHANGED <<validate, is_monthly, today, valfile, facts, gate_answer,
                   val_confirmation, create_called, pid, loop_vars, outfile,
                   exc, parse_vars>>

\* line 311
VAL_CheckTl ==
    /\ pc = "val_check_tl"
    /\ console' = Append(console,
                         check_tl_no(facts["bor_tl_no"], facts["fin_tl_no"],
                                     facts["material_request_tl_no"]))
    /\ pc' = "val_gate"
    /\ UNCHANGED <<validate, is_monthly, today, valfile, facts, gate_answer,
                   val_confirmation, create_called, pid, loop_vars, outfile,
                   exc, parse_vars>>

GatePrompts == Len(SelectSeq(console, LAMBDA e : e = Prompt("gate")))

\* line 314-315: the answer is kept, and the loop ends on y or n
VAL_Answered(answer) ==
    /\ answer \in {<<"y">>, <<"n">>} \/ GatePrompts + 1 < MaxPrompts
    /\ gate_answer' = answer
    /\ pc' = IF answer \in {<<"y">>, <<"n">>} THEN "val_return" ELSE "val_gate"

\* lines 313-315: one pass of the while loop; an answer other than y or n
\* asks again (at most MaxPrompts prompts are followed)
VAL_Gate ==
    /\ pc = "val_gate"
    /\ \E typed \in GateAnswers : VAL_Answered(Answer(typed))
    /\ console' = Append(console, Prompt("gate"))
    /\ UNCHANGED <<validate, is_monthly, today, valfile, facts,
                   val_confirmation, create_called, pid, loop_vars, outfile,
                   exc, parse_vars>>

\* lines 317-319 and 692: val_parameters returns the decision
VAL_Return ==
    /\ pc = "val_return"
    /\ val_confirmation' = ValConfirmation(gate_answer)
    /\ pc' = "rsc_after_val"
    /\ UNCHANGED <<validate, is_monthly, today, valfile, facts, console,
                   gate_answer, create_called, pid, loop_vars, outfile, exc,
                   parse_vars>>

\* lines 694-695: safe_exit ends the process
RSC_Exit ==
    /\ pc = "rsc_after_val"
    /\ ~val_confirmation
    /\ pc' = "exited"
    /\ UNCHANGED <<validate, is_monthly, today, valfile, facts, console,
                   gate_answer, val_confirmation, create_called, pid,
                   loop_vars, outfile, exc, parse_vars>>

\* line 694 with a true decision: on to the file creation
RSC_Proceed ==
    /\ pc = "rsc_after_val"
    /\ val_confirmation
    /\ pc' = "rsc_create"
    /\ UNCHANGED <<validate, is_monthly, today, valfile, facts, console,
                   gate_answer, val_confirmation, create_called, pid,
                   loop_vars, outfile, exc, parse_vars>>

\* create_stars returned after write_file, or raised before it
RSC_Created(r) ==
    IF r.exc # "none"
    THEN /\ pc' = "raised"
         /\ exc' = r.exc
         /\ UNCHANGED <<output_lines, outfile>>
    ELSE /\ pc' = "rsc_done"
         /\ output_lines' = r.value
         /\ outfile' = [exists |-> TRUE, lines |-> r.value]
         /\ UNCHANGED exc

\* lines 698-701: create_stars is called and runs to its end
RSC_CreateStars ==
    /\ pc = "rsc_create"
    /\ create_called' = TRUE
    /\ \E file \in RunFiles, now \in Timestamps :
          /\ original_lines' = file
          /\ RSC_Created(create_stars(file, now, pid))
    /\ UNCHANGED <<validate, is_monthly, today, valfile, facts, console,
                   gate_answer, val_confirmation, pid, idx, total, parse_vars>>

NextVal ==
    \/ RSC_Validate
    \/ RSC_NoValidate
    \/ VAL_Query
    \/ VAL_Parse
    \/ VAL_Monthly
    \/ VAL_CheckBor
    \/ VAL_CheckMrdt
    \/ VAL_CheckTl
    \/ VAL_Gate
    \/ VAL_Return
    \/ RSC_Exit
    \/ RSC_Proceed
    \/ RSC_CreateStars

SpecVal == InitVal /\ [][NextVal]_vars

-----------------------------------------------------------------------------
(* The validation workflow observed *)

Yes == <<"y">>

No == <<"n">>

ReportsOf(check) ==
    SelectSeq(console, LAMBDA e : e.kind = "report" /\ e.check = check)

\* the checks reported so far, in the order of their reports
ReportedChecks ==
    LET reports == SelectSeq(console, LAMBDA e : e.kind = "report")
    IN  [k \in 1..Len(reports) |-> reports[k].check]

\* val_parameters is past line 311, or has returned
PastChecks ==
    /\ validate
    /\ \/ pc \in {"val_gate", "val_return", "rsc_after_val", "rsc_create",
                  "rsc_done", "exited"}
       \/ create_called

\* the run is over
Ended == pc \in {"rsc_done", "raised", "exited"}

\* the same calendar day, whatever the two Python types
SameDay(a, b) == a.year = b.year /\ a.month = b.month /\ a.day = b.day

\* the query result is not ten parsable label: value lines
MalformedResult(val_lines) ==
    \/ Len(val_lines) # 10
    \/ \E k \in 1..Len(val_lines) : ~Contains(<<":">>, val_lines[k])
    \/ \E k \in {1, 4, 7, 10} \cap (1..Len(val_lines)) :
          DateutilParse(FactText(val_lines[k])).exc # "none"

\* C6: val_parameters returns true exactly for the accepted answer y and
\* false for n; in a run with validation create_stars is called if and only
\* if that answer is y, whatever the three checks reported, and never
\* after val_parameters returned false.
C6_GateDecides ==
    /\ pc = "rsc_after_val" =>
          /\ gate_answer \in {Yes, No}
          /\ val_confirmation <=> gate_answer = Yes
    /\ validate /\ create_called => gate_answer = Yes /\ val_confirmation
    /\ pc = "exited" => ~create_called /\ gate_answer = No /\ ~outfile.exists
    /\ validate /\ Ended => (create_called <=> gate_answer = Yes)

C6_Witness ==
    /\ validate
    /\ create_called
    /\ gate_answer = Yes
    /\ ReportsOf("bor") = <<Report("bor", "BOR date is no good!")>>
    /\ ReportsOf("mrdt")
          = <<Report("mrdt", "material_request_tbl tl date doesn't match")>>
    /\ ReportsOf("tl") = <<Report("tl", "TL numbers do not match!")>>

\* C7 (as claimed): a malformed query result (not exactly ten lines, a date
\* that does not parse, a line without a colon) makes the workflow raise
\* before any output, with no fact returned and create_stars not called.
C7_MalformedResultIsFatal ==
    /\ validate
    /\ pc \notin {"run_stars_creator", "val_parameters", "val_parse"}
    /\ MalformedResult(valfile)
    => /\ pc = "raised"
       /\ console = <<>>
       /\ facts = NoFacts
       /\ ~create_called

\* C8 (as claimed): on the facts parse_valfile returned, the BOR date check
\* reports good exactly when the flag is n and the reference date is the
\* last day of the previous month, or the flag is y and the reference date
\* is the fin_trnsmtl date and the last day of the current month.
C8_BorDateCheck ==
    ReportsOf("bor") # <<>> =>
        (ReportsOf("bor")[1].status = "BOR date is good!"
         <=> \/ /\ is_monthly = No
                /\ SameDay(facts["var_parm_bordt"],
                           get_last_day_of_previous_month(today))
             \/ /\ is_monthly = Yes
                /\ SameDay(facts["var_parm_bordt"], facts["fin_tldt"])
                /\ SameDay(facts["var_parm_bordt"],
                           get_last_day_of_month(today)))

\* C9: each of the three checks is reported at most once; once
\* val_parameters is past the checks exactly the three reports have been
\* made, one each; and every gate prompt comes after all three reports.
C9_ChecksBeforeGate ==
    /\ \A c \in {"bor", "mrdt", "tl"} : Len(ReportsOf(c)) <= 1
    /\ PastChecks => ReportedChecks = <<"bor", "mrdt", "tl">>
    /\ \A k \in 1..Len(console) :
          console[k] = Prompt("gate") =>
              \A c \in {"bor", "mrdt", "tl"} :
                  \E j \in 1..(k - 1) :
                      console[j].kind = "report" /\ console[j].check = c

C9_Witness ==
    /\ pc = "val_return"
    /\ GatePrompts = 2
    /\ ReportsOf("mrdt")
          = <<Report("mrdt", "material_request_tbl tl date matches")>>
    /\ ReportsOf("tl") = <<Report("tl", "TL numbers do not match!")>>

\* the fact on line k of the query result, and the date it stands for
FactOnLine(k) == FactText(valfile[k])

DateOnLine(k) == DateutilParse(FactOnLine(k)).value

\* the check has reported its passing status
Passed(check) ==
    ReportsOf(check)[1].status \in {"BOR date is good!",
                                    "material_request_tbl tl date matches",
                                    "TL numbers match."}

\* the lines of the query result whose fact a check reads
ReadBy == [bor |-> {1, 7}, mrdt |-> {4, 10}, tl |-> {3, 6, 9}]

\* the query result of the run with the fact on line k replaced
WithFact(k, value) == [valfile EXCEPT ![k] = FactLine(k, value)]

\* C15: the outcome of each cross-check depends only on the facts it reads.
\* The date check passes if and only if the material_request_tbl date (line
\* 10) equals the BOR table's date (line 4); the three-way check passes if
\* and only if the three TL numbers (lines 3, 6, 9) are equal; against any
\* ten facts that differ from the run's in exactly one fact, a check whose
\* outcome differs reads that fact, and a difference in a fiscal-year fact
\* (lines 2, 5, 8) changes no outcome.
C15_ChecksReadTheirFacts ==
    pc = "val_gate" /\ GatePrompts = 0 =>
        /\ Passed("mrdt") <=> DateOnLine(10) = DateOnLine(4)
        /\ Passed("tl") <=> /\ FactOnLine(3) = FactOnLine(6)
                            /\ FactOnLine(6) = FactOnLine(9)
        /\ \A k \in 1..10 : \A value \in {BaseValues[k], AltValues[k]} :
              FactText(FactLine(k, value)) # FactOnLine(k) =>
                  \A c \in DOMAIN ReadBy :
                      \/ ChecksOn(WithFact(k, value), is_monthly, today)[c]
                            = ReportsOf(c)[1]
                      \/ k \in ReadBy[c] /\ k \notin {2, 5, 8}

\* a run whose third TL number alone was changed: the date check passes
\* and the three-way check does not
C15_Witness ==
    /\ pc = "val_gate"
    /\ GatePrompts = 0
    /\ valfile = ValFileOf({9})
    /\ Passed("mrdt")
    /\ ~Passed("tl")

====
